---------------------------- MODULE Spec2Model ----------------------------
(***************************************************************************)
(* HRMS Lite: the employee and attendance record service, in its two       *)
(* storage backends.                                                       *)
(*                                                                         *)
(*   src/backend/main.py       document store (MongoDB through motor)      *)
(*   src/backend/test/test.py  relational store (SQLAlchemy; SQLite by     *)
(*                             default, PostgreSQL through DATABASE_URL)   *)
(*                                                                         *)
(* Every request handler is a sequence of storage round trips.  Requests   *)
(* run concurrently (coroutines that yield at every await in main.py,      *)
(* threadpool workers in test.py), so each round trip that can observe or  *)
(* change what another request does is one atomic step of the model, and   *)
(* steps of different requests interleave freely.  Every statement reads   *)
(* the latest committed data (MongoDB single-document operations;          *)
(* READ COMMITTED / SQLite autocommit reads in the relational backend).    *)
(***************************************************************************)
EXTENDS Integers, Sequences, FiniteSets, TLC

(* ------------------------------ bounds -------------------------------- *)

\* Concurrent request workers.
NumProcs == 2

\* Employee rows ever inserted in one behaviour.
MaxEmployeeRows == 2

\* Attendance rows ever inserted in one behaviour.
MaxAttendanceRows == 2

Procs == 1..NumProcs

(* --------------------------- input domains ---------------------------- *)

EmployeeIds == {"E1", "E2"}

\* Calendar dates, as day numbers.
Dates == 1..3

\* date.today(), the server clock at validation time.
Today == 2

\* AttendanceStatus
PRESENT == "Present"

ABSENT == "Absent"

AttendanceStatus == {PRESENT, ABSENT}

\* The storage engine behind the process: MONGODB_URL for main.py; in
\* test.py DATABASE_URL picks SQLite (the default, which does not enforce
\* foreign keys) or PostgreSQL (which does).
Backends == {"mongodb", "sqlite", "postgresql"}

\* An EmployeeCreate payload that has passed validation.
Payload(employee_id, full_name, email, department) ==
    [employee_id |-> employee_id, full_name |-> full_name,
     email |-> email, department |-> department]

\* Validated EmployeeCreate payloads: two with the same employee_id and
\* every other field different, two with the same email under different
\* employee_ids, and pairs that share nothing.
EmployeeCreate ==
    {Payload("E1", "Alice", "a@x.com", "Eng"),
     Payload("E1", "Bob", "b@x.com", "Ops"),
     Payload("E2", "Bob", "b@x.com", "Ops"),
     Payload("E2", "Bob", "a@x.com", "Eng")}

\* AttendanceCreate payloads before validate_date: E1 on every date with
\* either status, E2 today and Present.
AttendanceCreate ==
    [employee_id : {"E1"}, date : Dates, status : AttendanceStatus]
    \cup [employee_id : {"E2"}, date : {Today}, status : {PRESENT}]

(* ------------------------------- state -------------------------------- *)

VARIABLES
    backend,      \* the storage engine of this deployment
    employees,    \* the employees collection / table, in insertion order
    attendance,   \* the attendance collection / table, in insertion order
    nextEmpId,    \* next storage-assigned employee id
    nextAttId,    \* next storage-assigned attendance id
    pc,           \* pc[p]: where request worker p stands in its handler
    req,          \* req[p]: the request p is serving
    loc,          \* loc[p]: the handler's local variables
    reply         \* the exchange completed by the step just taken

vars == <<backend, employees, attendance, nextEmpId, nextAttId,
          pc, req, loc, reply>>

store == <<employees, attendance, nextEmpId, nextAttId>>

(* ------------------------------ helpers ------------------------------- *)

\* Python's None / a found row: the empty or the one-element sequence.
None == <<>>

Some(x) == <<x>>

NoLocals == [employee |-> None, existing |-> None, inserted |-> 0]

NoRequest == [op |-> "none", args |-> None]

Request(op, args) == [op |-> op, args |-> args]

\* An HTTP response: the status code and the JSON body as a list.
Response(code, body) == [code |-> code, body |-> body]

NoResponse == Response(0, <<>>)

\* HTTPException(code, ...): FastAPI's error response.
HTTPException(code) == Response(code, <<>>)

\* An exception no handler catches: FastAPI answers 500.
Unhandled == Response(500, <<>>)

\* Pydantic's RequestValidationError: FastAPI answers 422.
ValidationError == Response(422, <<>>)

\* datetime.combine(d, datetime.min.time()): the date at midnight.
datetime_combine(d) == [date |-> d, time |-> 0]

\* datetime.date(): the calendar date of a timestamp.
datetime_date(dt) == dt.date

\* cursor.first() / find_one on a result list.
first(rows) == IF rows = <<>> THEN None ELSE Some(rows[1])

Range(s) == {s[i] : i \in DOMAIN s}

\* No request was answered by the step just taken.
NoReply == [req |-> NoRequest, response |-> NoResponse]

\* Worker p answers request rq with response r and is idle again.
Finish(p, rq, r) ==
    /\ pc' = [pc EXCEPT ![p] = "idle"]
    /\ loc' = [loc EXCEPT ![p] = NoLocals]
    /\ req' = [req EXCEPT ![p] = NoRequest]
    /\ reply' = [req |-> rq, response |-> r]

\* Worker p takes up request rq and stands at step s with locals l.
Begin(p, rq, s, l) ==
    /\ pc' = [pc EXCEPT ![p] = s]
    /\ loc' = [loc EXCEPT ![p] = l]
    /\ req' = [req EXCEPT ![p] = rq]
    /\ reply' = NoReply

\* Worker p moves on to step s with locals l.
Goto(p, s, l) ==
    /\ pc' = [pc EXCEPT ![p] = s]
    /\ loc' = [loc EXCEPT ![p] = l]
    /\ reply' = NoReply
    /\ UNCHANGED req

\* Requests that have passed their pre-checks and still hold an insert.
PendingEmployeeInserts ==
    Cardinality({p \in Procs : pc[p] \in {"c_email", "c_insert"}})

PendingAttendanceInserts ==
    Cardinality({p \in Procs : pc[p] \in {"m_find", "m_insert"}})

EmployeeBudget == nextEmpId - 1 + PendingEmployeeInserts < MaxEmployeeRows

AttendanceBudget ==
    nextAttId - 1 + PendingAttendanceInserts < MaxAttendanceRows

(* --------------------------- storage layer ---------------------------- *)

\* The lookup with the filter on the wrong column.
find_employee_by_employee_id_wrong_column(eid) ==
    first(SelectSeq(employees, LAMBDA e : e.full_name = eid))

\* employees.find_one({"employee_id": eid}) /
\* db.query(EmployeeDB).filter(EmployeeDB.employee_id == eid).first()
find_employee_by_employee_id(eid) ==
    first(SelectSeq(employees, LAMBDA e : e.employee_id = eid))

\* The lookup with the filter on the wrong column.
find_employee_by_email_wrong_column(email) ==
    first(SelectSeq(employees, LAMBDA e : e.employee_id = email))

\* employees.find_one({"email": email}) /
\* db.query(EmployeeDB).filter(EmployeeDB.email == email).first()
find_employee_by_email(email) ==
    first(SelectSeq(employees, LAMBDA e : e.email = email))

\* Lookup by the storage-assigned id (find_one({"_id": ...}), db.refresh).
find_employee_by_id(id) ==
    first(SelectSeq(employees, LAMBDA e : e.id = id))

\* The employees store with the unique index on email left out.
employees_unique_violation_id_only(doc) ==
    \E e \in Range(employees) : e.employee_id = doc.employee_id

\* The unique indexes on employees: create_index("employee_id", unique=True)
\* and create_index("email", unique=True) in main.py; unique=True on both
\* columns of EmployeeDB in test.py.  TRUE when inserting doc breaks one.
employees_unique_violation(doc) ==
    \E e \in Range(employees) :
        e.employee_id = doc.employee_id \/ e.email = doc.email

\* Insert of doc into employees with the next storage-assigned id.
employees_insert(doc) ==
    /\ employees' = Append(employees,
           [id |-> nextEmpId, employee_id |-> doc.employee_id,
            full_name |-> doc.full_name, email |-> doc.email,
            department |-> doc.department])
    /\ nextEmpId' = nextEmpId + 1

(* ----------------------- response serialisation ----------------------- *)

\* main.py employee_helper: emp["_id"] = str(emp["_id"]).
employee_helper(emp) == [emp EXCEPT !.id = ToString(emp.id)]

\* test.py Employee (from_attributes): the row as it is, id an integer.
Employee_from_orm(row) == row

(* ------------------- main.py: employees (MongoDB) --------------------- *)

\* POST /api/employees, first round trip: find_one by employee_id.
mongo_create_employee(p, e) ==
    /\ backend = "mongodb"
    /\ pc[p] = "idle"
    /\ IF find_employee_by_employee_id(e.employee_id) # None
       THEN Finish(p, Request("create_employee", e), HTTPException(400))
       ELSE /\ EmployeeBudget
            /\ Begin(p, Request("create_employee", e), "c_email", NoLocals)
    /\ UNCHANGED <<backend, store>>

\* The email check made after the document has been written.
mongo_create_employee_email_after_insert(p) ==
    /\ backend = "mongodb"
    /\ pc[p] = "c_email"
    /\ IF find_employee_by_email(req[p].args.email) # None
       THEN /\ employees_insert(req[p].args)
            /\ Finish(p, req[p], HTTPException(400))
       ELSE /\ Goto(p, "c_insert", NoLocals)
            /\ UNCHANGED <<employees, nextEmpId>>
    /\ UNCHANGED <<backend, attendance, nextAttId>>

\* Second round trip: find_one by email.
mongo_create_employee_email(p) ==
    /\ backend = "mongodb"
    /\ pc[p] = "c_email"
    /\ IF find_employee_by_email(req[p].args.email) # None
       THEN Finish(p, req[p], HTTPException(400))
       ELSE Goto(p, "c_insert", NoLocals)
    /\ UNCHANGED <<backend, store>>

\* Third round trip: insert_one.  A unique index rejects the document with
\* DuplicateKeyError, which nothing catches.
mongo_create_employee_insert(p) ==
    /\ backend = "mongodb"
    /\ pc[p] = "c_insert"
    /\ IF employees_unique_violation(req[p].args)
       THEN Finish(p, req[p], Unhandled) /\ UNCHANGED <<employees, nextEmpId>>
       ELSE /\ employees_insert(req[p].args)
            /\ Goto(p, "c_fetch", [NoLocals EXCEPT !.inserted = nextEmpId])
    /\ UNCHANGED <<backend, attendance, nextAttId>>

\* Fourth round trip: find_one by _id, then employee_helper.
mongo_create_employee_fetch(p) ==
    /\ backend = "mongodb"
    /\ pc[p] = "c_fetch"
    /\ LET new_emp == find_employee_by_id(loc[p].inserted)
       IN  IF new_emp = None
           THEN Finish(p, req[p], Unhandled)
           ELSE Finish(p, req[p],
                    Response(200, <<employee_helper(new_emp[1])>>))
    /\ UNCHANGED <<backend, store>>

\* The listing cut after its first document.
mongo_get_employees_first_only(p) ==
    /\ backend = "mongodb"
    /\ pc[p] = "idle"
    /\ Finish(p, Request("get_employees", None), Response(200,
           [i \in DOMAIN employees \cap {1} |->
               employee_helper(employees[i])]))
    /\ UNCHANGED <<backend, store>>

\* GET /api/employees.
mongo_get_employees(p) ==
    /\ backend = "mongodb"
    /\ pc[p] = "idle"
    /\ Finish(p, Request("get_employees", None), Response(200,
           [i \in DOMAIN employees |-> employee_helper(employees[i])]))
    /\ UNCHANGED <<backend, store>>

(* ---------------- test.py: employees (SQLAlchemy) --------------------- *)

sql == backend \in {"sqlite", "postgresql"}

\* POST /api/employees, first query: by employee_id.
sql_create_employee(p, e) ==
    /\ sql
    /\ pc[p] = "idle"
    /\ IF find_employee_by_employee_id(e.employee_id) # None
       THEN Finish(p, Request("create_employee", e), HTTPException(400))
       ELSE /\ EmployeeBudget
            /\ Begin(p, Request("create_employee", e), "c_email", NoLocals)
    /\ UNCHANGED <<backend, store>>

\* Second query: by email.
sql_create_employee_email(p) ==
    /\ sql
    /\ pc[p] = "c_email"
    /\ IF find_employee_by_email(req[p].args.email) # None
       THEN Finish(p, req[p], HTTPException(400))
       ELSE Goto(p, "c_insert", NoLocals)
    /\ UNCHANGED <<backend, store>>

\* db.add; db.commit.  A unique column rejects the row with IntegrityError,
\* which nothing catches.
sql_create_employee_insert(p) ==
    /\ sql
    /\ pc[p] = "c_insert"
    /\ IF employees_unique_violation(req[p].args)
       THEN Finish(p, req[p], Unhandled) /\ UNCHANGED <<employees, nextEmpId>>
       ELSE /\ employees_insert(req[p].args)
            /\ Goto(p, "c_fetch", [NoLocals EXCEPT !.inserted = nextEmpId])
    /\ UNCHANGED <<backend, attendance, nextAttId>>

\* db.refresh(db_employee): fails when the row has been deleted meanwhile.
sql_create_employee_fetch(p) ==
    /\ sql
    /\ pc[p] = "c_fetch"
    /\ LET row == find_employee_by_id(loc[p].inserted)
       IN  IF row = None
           THEN Finish(p, req[p], Unhandled)
           ELSE Finish(p, req[p],
                    Response(201, <<Employee_from_orm(row[1])>>))
    /\ UNCHANGED <<backend, store>>

\* GET /api/employees.
sql_get_employees(p) ==
    /\ sql
    /\ pc[p] = "idle"
    /\ Finish(p, Request("get_employees", None), Response(200,
           [i \in DOMAIN employees |-> Employee_from_orm(employees[i])]))
    /\ UNCHANGED <<backend, store>>

\* GET /api/employees/{employee_id}.
sql_get_employee(p, employee_id) ==
    /\ sql
    /\ pc[p] = "idle"
    /\ LET employee == find_employee_by_employee_id(employee_id)
           rq == Request("get_employee", [employee_id |-> employee_id])
       IN  IF employee = None
           THEN Finish(p, rq, HTTPException(404))
           ELSE Finish(p, rq,
                    Response(200, <<Employee_from_orm(employee[1])>>))
    /\ UNCHANGED <<backend, store>>

\* DELETE /api/employees/{employee_id}, the lookup.
sql_delete_employee(p, employee_id) ==
    /\ sql
    /\ pc[p] = "idle"
    /\ LET employee == find_employee_by_employee_id(employee_id)
           rq == Request("delete_employee", [employee_id |-> employee_id])
       IN  IF employee = None
           THEN Finish(p, rq, HTTPException(404))
           ELSE Begin(p, rq, "d_commit",
                      [NoLocals EXCEPT !.employee = employee])
    /\ UNCHANGED <<backend, store>>

\* db.delete(employee); db.commit(): the flush deletes the employee's
\* attendance_records (cascade="all, delete-orphan") and then the employee
\* row by primary key; a row already gone makes the flush raise
\* StaleDataError and the transaction is rolled back.
sql_delete_employee_commit(p) ==
    /\ sql
    /\ pc[p] = "d_commit"
    /\ LET employee == loc[p].employee[1]
       IN  IF find_employee_by_id(employee.id) = None
           THEN /\ Finish(p, req[p], Unhandled)
                /\ UNCHANGED <<employees, attendance>>
           ELSE /\ employees' =
                      SelectSeq(employees, LAMBDA e : e.id # employee.id)
                /\ attendance' =
                      SelectSeq(attendance,
                          LAMBDA r : r.employee_id # employee.employee_id)
                /\ Finish(p, req[p], Response(204, <<>>))
    /\ UNCHANGED <<backend, nextEmpId, nextAttId>>

(* ---------------------------- attendance ------------------------------ *)

\* The validator with the boundary day on the wrong side.
validate_date_before_today(v) == v < Today

\* AttendanceCreate.validate_date: raises when v > date.today().
validate_date(v) == ~(v > Today)

\* The date column as each backend stores it: main.py stores the date at
\* midnight as a datetime, test.py a Date.
stored_date(d) == IF backend = "mongodb" THEN datetime_combine(d) ELSE d

\* The calendar date of a stored row.
row_date(r) == IF backend = "mongodb" THEN datetime_date(r.date) ELSE r.date

\* Rows matching {"employee_id": ..., "date": ...}.
attendance_matching(employee_id, date) ==
    SelectSeq(attendance,
        LAMBDA r : r.employee_id = employee_id /\ r.date = date)

\* Lookup by the storage-assigned id.
find_attendance_by_id(id) ==
    first(SelectSeq(attendance, LAMBDA r : r.id = id))

\* main.py lifespan: create_index([("employee_id", 1), ("date", 1)],
\* unique=True).  TRUE when inserting doc breaks it.
mongo_attendance_unique_violation(doc) ==
    attendance_matching(doc.employee_id, doc.date) # <<>>

\* test.py AttendanceDB declares no unique constraint over
\* (employee_id, date): no insert is rejected for that reason.
sql_attendance_unique_violation(doc) == FALSE

\* test.py AttendanceDB.employee_id: ForeignKey("employees.employee_id").
\* PostgreSQL enforces it; SQLite does not unless PRAGMA foreign_keys is
\* set, which the code never does.
sql_foreign_key_violation(doc) ==
    /\ backend = "postgresql"
    /\ find_employee_by_employee_id(doc.employee_id) = None

\* An insert keyed by employee_id alone: it replaces the employee's earlier
\* records.
attendance_insert_replacing(doc) ==
    /\ attendance' =
           Append(SelectSeq(attendance,
                      LAMBDA r : r.employee_id # doc.employee_id),
               [id |-> nextAttId, employee_id |-> doc.employee_id,
                date |-> doc.date, status |-> doc.status])
    /\ nextAttId' = nextAttId + 1

\* Insert of doc into attendance with the next storage-assigned id.
attendance_insert(doc) ==
    /\ attendance' = Append(attendance,
           [id |-> nextAttId, employee_id |-> doc.employee_id,
            date |-> doc.date, status |-> doc.status])
    /\ nextAttId' = nextAttId + 1

\* The update with no filter on the record's id.
attendance_set_status_unfiltered(id, status) ==
    attendance' = [i \in DOMAIN attendance |->
                      [attendance[i] EXCEPT !.status = status]]

\* update_one({"_id": id}, {"$set": {"status": status}}) /
\* UPDATE attendance SET status = :status WHERE id = :id.
attendance_set_status(id, status) ==
    attendance' = [i \in DOMAIN attendance |->
                      IF attendance[i].id = id
                      THEN [attendance[i] EXCEPT !.status = status]
                      ELSE attendance[i]]

\* main.py attendance_helper (str of _id, datetime to date) with the
\* employee_name the handler adds (Optional[str]: a name or None).
attendance_helper(att, employee_name) ==
    [id |-> ToString(att.id), employee_id |-> att.employee_id,
     date |-> datetime_date(att.date), status |-> att.status,
     employee_name |-> employee_name]

\* test.py Attendance.from_orm(row) with employee_name set by the handler.
Attendance_from_orm(row, employee_name) ==
    [id |-> row.id, employee_id |-> row.employee_id, date |-> row.date,
     status |-> row.status, employee_name |-> employee_name]

\* A mark call is taken up while it can rewrite a record of its pair or
\* the bound on inserted rows leaves room for its insert.
MayMark(a) ==
    \/ attendance_matching(a.employee_id, stored_date(a.date)) # <<>>
    \/ AttendanceBudget

(* ------------------- main.py: mark_attendance ------------------------- *)

\* POST /api/attendance: validation, then find_one of the employee.
mongo_mark_attendance(p, a) ==
    /\ backend = "mongodb"
    /\ pc[p] = "idle"
    /\ LET employee == find_employee_by_employee_id(a.employee_id)
       IN  IF ~validate_date(a.date)
           THEN Finish(p, Request("mark_attendance", a), ValidationError)
           ELSE IF employee = None
           THEN Finish(p, Request("mark_attendance", a), HTTPException(404))
           ELSE /\ MayMark(a)
                /\ Begin(p, Request("mark_attendance", a), "m_find",
                         [NoLocals EXCEPT !.employee = employee])
    /\ UNCHANGED <<backend, store>>

\* existing = find_one({"employee_id": ..., "date": ...}).
mongo_mark_attendance_find(p) ==
    /\ backend = "mongodb"
    /\ pc[p] = "m_find"
    /\ LET a == req[p].args
           existing == first(attendance_matching(a.employee_id,
                                                 datetime_combine(a.date)))
       IN  IF existing # None
           THEN Goto(p, "m_update", [loc[p] EXCEPT !.existing = existing])
           ELSE Goto(p, "m_insert", loc[p])
    /\ UNCHANGED <<backend, store>>

\* update_one by _id; a missing document is not an error.
mongo_mark_attendance_update(p) ==
    /\ backend = "mongodb"
    /\ pc[p] = "m_update"
    /\ attendance_set_status(loc[p].existing[1].id, req[p].args.status)
    /\ Goto(p, "m_fetch", loc[p])
    /\ UNCHANGED <<backend, employees, nextEmpId, nextAttId>>

\* insert_one.  The composite unique index rejects the document with
\* DuplicateKeyError, which nothing catches.
mongo_mark_attendance_insert(p) ==
    /\ backend = "mongodb"
    /\ pc[p] = "m_insert"
    /\ LET a == req[p].args
           doc == [employee_id |-> a.employee_id,
                   date |-> datetime_combine(a.date), status |-> a.status]
       IN  IF mongo_attendance_unique_violation(doc)
           THEN /\ Finish(p, req[p], Unhandled)
                /\ UNCHANGED <<attendance, nextAttId>>
           ELSE /\ attendance_insert(doc)
                /\ Goto(p, "m_fetch", [loc[p] EXCEPT !.inserted = nextAttId])
    /\ UNCHANGED <<backend, employees, nextEmpId>>

\* find_one by _id of the updated or inserted document; employee_name is
\* taken from the employee looked up at the start.
mongo_mark_attendance_fetch(p) ==
    /\ backend = "mongodb"
    /\ pc[p] = "m_fetch"
    /\ LET id == IF loc[p].existing # None THEN loc[p].existing[1].id
                 ELSE loc[p].inserted
           att == find_attendance_by_id(id)
       IN  IF att = None
           THEN Finish(p, req[p], Unhandled)
           ELSE Finish(p, req[p], Response(200,
                    <<attendance_helper(att[1],
                        Some(loc[p].employee[1].full_name))>>))
    /\ UNCHANGED <<backend, store>>

(* ------------------- test.py: mark_attendance ------------------------- *)

\* The handler without its "Employee not found" check.
sql_mark_attendance_unchecked(p, a) ==
    /\ sql
    /\ pc[p] = "idle"
    /\ LET employee == find_employee_by_employee_id(a.employee_id)
       IN  IF ~validate_date(a.date)
           THEN Finish(p, Request("mark_attendance", a), ValidationError)
           ELSE /\ MayMark(a)
                /\ Begin(p, Request("mark_attendance", a), "m_find",
                         [NoLocals EXCEPT !.employee = employee])
    /\ UNCHANGED <<backend, store>>

\* POST /api/attendance: validation, then the employee query.
sql_mark_attendance(p, a) ==
    /\ sql
    /\ pc[p] = "idle"
    /\ LET employee == find_employee_by_employee_id(a.employee_id)
       IN  IF ~validate_date(a.date)
           THEN Finish(p, Request("mark_attendance", a), ValidationError)
           ELSE IF employee = None
           THEN Finish(p, Request("mark_attendance", a), HTTPException(404))
           ELSE /\ MayMark(a)
                /\ Begin(p, Request("mark_attendance", a), "m_find",
                         [NoLocals EXCEPT !.employee = employee])
    /\ UNCHANGED <<backend, store>>

\* existing = query.filter(employee_id, date).first(): with no ORDER BY the
\* engine may return any of the matching rows.
sql_mark_attendance_find(p) ==
    /\ sql
    /\ pc[p] = "m_find"
    /\ LET a == req[p].args
           rows == attendance_matching(a.employee_id, a.date)
       IN  IF rows # <<>>
           THEN \E i \in DOMAIN rows :
                    Goto(p, "m_update",
                         [loc[p] EXCEPT !.existing = Some(rows[i])])
           ELSE Goto(p, "m_insert", loc[p])
    /\ UNCHANGED <<backend, store>>

\* existing.status = attendance.status; db.commit().  The flush issues the
\* UPDATE by primary key only when the status changes; a row deleted
\* meanwhile makes it raise StaleDataError.
sql_mark_attendance_update(p) ==
    /\ sql
    /\ pc[p] = "m_update"
    /\ LET existing == loc[p].existing[1]
           dirty == existing.status # req[p].args.status
       IN  IF dirty /\ find_attendance_by_id(existing.id) = None
           THEN Finish(p, req[p], Unhandled) /\ UNCHANGED attendance
           ELSE /\ IF dirty
                   THEN attendance_set_status(existing.id, req[p].args.status)
                   ELSE UNCHANGED attendance
                /\ Goto(p, "m_fetch", loc[p])
    /\ UNCHANGED <<backend, employees, nextEmpId, nextAttId>>

\* db.add(db_attendance); db.commit().
sql_mark_attendance_insert(p) ==
    /\ sql
    /\ pc[p] = "m_insert"
    /\ LET a == req[p].args
           doc == [employee_id |-> a.employee_id, date |-> a.date,
                   status |-> a.status]
       IN  IF sql_attendance_unique_violation(doc)
              \/ sql_foreign_key_violation(doc)
           THEN /\ Finish(p, req[p], Unhandled)
                /\ UNCHANGED <<attendance, nextAttId>>
           ELSE /\ attendance_insert(doc)
                /\ Goto(p, "m_fetch", [loc[p] EXCEPT !.inserted = nextAttId])
    /\ UNCHANGED <<backend, employees, nextEmpId>>

\* db.refresh(row), then employee.full_name: the commit expired employee,
\* so the attribute is loaded again by primary key.  Either row being gone
\* raises.
sql_mark_attendance_fetch(p) ==
    /\ sql
    /\ pc[p] = "m_fetch"
    /\ LET id == IF loc[p].existing # None THEN loc[p].existing[1].id
                 ELSE loc[p].inserted
           row == find_attendance_by_id(id)
           employee == find_employee_by_id(loc[p].employee[1].id)
       IN  IF row = None \/ employee = None
           THEN Finish(p, req[p], Unhandled)
           ELSE Finish(p, req[p], Response(201,
                    <<Attendance_from_orm(row[1],
                                          Some(employee[1].full_name))>>))
    /\ UNCHANGED <<backend, store>>

(* -------------------------- GET /api/attendance ----------------------- *)

\* Calendar-date strings of the query string: date d is written IsoDates[d].
IsoDates == <<"2024-01-01", "2024-01-02", "2024-01-03">>

QueryEmployeeIds == {None} \cup {Some(e) : e \in EmployeeIds}

\* GET /api/attendance queries of the concurrent system: with or without
\* the employee_id filter, no date bound.
AttendanceQuery == [employee_id : QueryEmployeeIds, date_from : {None},
                    date_to : {None}]

\* TRUE when s is a calendar date in the %Y-%m-%d form.
well_formed(s) == \E d \in DOMAIN IsoDates : IsoDates[d] = s

\* The date a well-formed string denotes.
parse_date(s) == CHOOSE d \in DOMAIN IsoDates : IsoDates[d] = s

\* datetime.strptime(s, "%Y-%m-%d"): the date at midnight.
strptime(s) == datetime_combine(parse_date(s))

\* TRUE when f lists the rows of the set rows once each, by date descending;
\* rows of the same date come in an order the engine chooses.
sorted_by_date_desc(f, rows) ==
    /\ Range(f) = rows
    /\ \A i, j \in DOMAIN f : i < j => row_date(f[i]) >= row_date(f[j])

\* Every result list a sort("date", -1) / order_by(date.desc()) may give.
orderings(rows) ==
    {f \in [1..Cardinality(rows) -> rows] : sorted_by_date_desc(f, rows)}

\* main.py get_attendance: the rows the query document selects.
mongo_attendance_query(q) ==
    {r \in Range(attendance) :
        /\ q.employee_id # None => r.employee_id = q.employee_id[1]
        /\ q.date_from # None =>
               r.date.date >= strptime(q.date_from[1]).date
        /\ q.date_to # None =>
               r.date.date <= strptime(q.date_to[1]).date}

\* employee_name of a listed record: the employee's full_name, or None.
mongo_employee_name(r) ==
    LET emp == find_employee_by_employee_id(r.employee_id)
    IN  IF emp # None THEN Some(emp[1].full_name) ELSE None

\* GET /api/attendance in main.py.  strptime raises ValueError on a
\* malformed string, which nothing catches.
mongo_get_attendance(p, q) ==
    /\ backend = "mongodb"
    /\ pc[p] = "idle"
    /\ IF \/ q.date_from # None /\ ~well_formed(q.date_from[1])
          \/ q.date_to # None /\ ~well_formed(q.date_to[1])
       THEN Finish(p, Request("get_attendance", q), Unhandled)
       ELSE \E f \in orderings(mongo_attendance_query(q)) :
                Finish(p, Request("get_attendance", q), Response(200,
                    [i \in DOMAIN f |->
                        attendance_helper(f[i], mongo_employee_name(f[i]))]))
    /\ UNCHANGED <<backend, store>>

\* test.py get_attendance: query(AttendanceDB).join(EmployeeDB) with the
\* filters; the inner join drops rows whose employee is gone.
sql_attendance_query(q) ==
    {r \in Range(attendance) :
        /\ find_employee_by_employee_id(r.employee_id) # None
        /\ q.employee_id # None => r.employee_id = q.employee_id[1]
        /\ q.date_from # None => r.date >= parse_date(q.date_from[1])
        /\ q.date_to # None => r.date <= parse_date(q.date_to[1])}

\* GET /api/attendance in test.py.  date_from and date_to are declared
\* Optional[date]: FastAPI answers 422 to a malformed one.
sql_get_attendance(p, q) ==
    /\ sql
    /\ pc[p] = "idle"
    /\ IF \/ q.date_from # None /\ ~well_formed(q.date_from[1])
          \/ q.date_to # None /\ ~well_formed(q.date_to[1])
       THEN Finish(p, Request("get_attendance", q), ValidationError)
       ELSE \E f \in orderings(sql_attendance_query(q)) :
                Finish(p, Request("get_attendance", q), Response(200,
                    [i \in DOMAIN f |->
                        Attendance_from_orm(f[i],
                            Some(find_employee_by_employee_id(
                                     f[i].employee_id)[1].full_name))]))
    /\ UNCHANGED <<backend, store>>

(* ----------------------- GET /api/attendance/stats -------------------- *)

RECURSIVE sum_cond_eq(_, _)
\* {"$sum": {"$cond": [{"$eq": ["$status", status]}, 1, 0]}} over a group.
sum_cond_eq(docs, status) ==
    IF docs = <<>> THEN 0
    ELSE (IF Head(docs).status = status THEN 1 ELSE 0)
         + sum_cond_eq(Tail(docs), status)

RECURSIVE sum_one(_)
\* {"$sum": 1} over a group.
sum_one(docs) == IF docs = <<>> THEN 0 ELSE 1 + sum_one(Tail(docs))

\* The $group stage with total_days copied from total_present.
mongo_aggregate_copied(docs) ==
    [k \in {d.employee_id : d \in Range(docs)} |->
        LET group == SelectSeq(docs, LAMBDA d : d.employee_id = k)
        IN  [total_present |-> sum_cond_eq(group, PRESENT),
             total_absent |-> sum_cond_eq(group, ABSENT),
             total_days |-> sum_cond_eq(group, PRESENT)]]

\* The $group stage: one document per employee_id present in attendance.
mongo_aggregate(docs) ==
    [k \in {d.employee_id : d \in Range(docs)} |->
        LET group == SelectSeq(docs, LAMBDA d : d.employee_id = k)
        IN  [total_present |-> sum_cond_eq(group, PRESENT),
             total_absent |-> sum_cond_eq(group, ABSENT),
             total_days |-> sum_one(group)]]

\* The merge that lists only the employees the aggregate has a group for.
mongo_attendance_stats_grouped_only(emps, docs) ==
    LET attendance_stats == mongo_aggregate(docs)
        seen == SelectSeq(emps,
                    LAMBDA e : e.employee_id \in DOMAIN attendance_stats)
    IN  [i \in DOMAIN seen |->
            LET emp_stats == attendance_stats[seen[i].employee_id]
            IN  [employee_id |-> seen[i].employee_id,
                 employee_name |-> seen[i].full_name,
                 total_present |-> emp_stats.total_present,
                 total_absent |-> emp_stats.total_absent,
                 total_days |-> emp_stats.total_days]]

\* main.py get_attendance_stats: the aggregate merged into the employee list.
mongo_attendance_stats(emps, docs) ==
    LET attendance_stats == mongo_aggregate(docs)
    IN  [i \in DOMAIN emps |->
            LET emp_id == emps[i].employee_id
                emp_stats == IF emp_id \in DOMAIN attendance_stats
                             THEN attendance_stats[emp_id]
                             ELSE [total_present |-> 0, total_absent |-> 0,
                                   total_days |-> 0]
            IN  [employee_id |-> emp_id,
                 employee_name |-> emps[i].full_name,
                 total_present |-> emp_stats.total_present,
                 total_absent |-> emp_stats.total_absent,
                 total_days |-> emp_stats.total_days]]

\* The count query with the status filter left out.
sql_count_any_status(rows, employee_id, status) ==
    Len(SelectSeq(rows, LAMBDA r : r.employee_id = employee_id))

\* query(AttendanceDB).filter(employee_id == ..., status == ...).count()
sql_count(rows, employee_id, status) ==
    Len(SelectSeq(rows,
            LAMBDA r : r.employee_id = employee_id /\ r.status = status))

\* test.py get_attendance_stats: two count queries per employee.
sql_attendance_stats(emps, rows) ==
    [i \in DOMAIN emps |->
        LET total_present == sql_count(rows, emps[i].employee_id, PRESENT)
            total_absent == sql_count(rows, emps[i].employee_id, ABSENT)
        IN  [employee_id |-> emps[i].employee_id,
             employee_name |-> emps[i].full_name,
             total_present |-> total_present,
             total_absent |-> total_absent,
             total_days |-> total_present + total_absent]]

\* GET /api/attendance/stats in main.py.
mongo_get_attendance_stats(p) ==
    /\ backend = "mongodb"
    /\ pc[p] = "idle"
    /\ Finish(p, Request("get_attendance_stats", None),
              Response(200, mongo_attendance_stats(employees, attendance)))
    /\ UNCHANGED <<backend, store>>

\* GET /api/attendance/stats in test.py.
sql_get_attendance_stats(p) ==
    /\ sql
    /\ pc[p] = "idle"
    /\ Finish(p, Request("get_attendance_stats", None),
              Response(200, sql_attendance_stats(employees, attendance)))
    /\ UNCHANGED <<backend, store>>

(* --------------------------- specification ---------------------------- *)

Init ==
    /\ backend \in Backends
    /\ employees = <<>>
    /\ attendance = <<>>
    /\ nextEmpId = 1
    /\ nextAttId = 1
    /\ pc = [p \in Procs |-> "idle"]
    /\ req = [p \in Procs |-> NoRequest]
    /\ loc = [p \in Procs |-> NoLocals]
    /\ reply = NoReply

Next ==
    \E p \in Procs :
        \/ \E e \in EmployeeCreate : mongo_create_employee(p, e)
        \/ mongo_create_employee_email(p)
        \/ mongo_create_employee_insert(p)
        \/ mongo_create_employee_fetch(p)
        \/ mongo_get_employees(p)
        \/ \E a \in AttendanceCreate : mongo_mark_attendance(p, a)
        \/ mongo_mark_attendance_find(p)
        \/ mongo_mark_attendance_update(p)
        \/ mongo_mark_attendance_insert(p)
        \/ mongo_mark_attendance_fetch(p)
        \/ \E q \in AttendanceQuery : mongo_get_attendance(p, q)
        \/ mongo_get_attendance_stats(p)
        \/ \E e \in EmployeeCreate : sql_create_employee(p, e)
        \/ sql_create_employee_email(p)
        \/ sql_create_employee_insert(p)
        \/ sql_create_employee_fetch(p)
        \/ sql_get_employees(p)
        \/ \E id \in EmployeeIds : sql_get_employee(p, id)
        \/ \E id \in EmployeeIds : sql_delete_employee(p, id)
        \/ sql_delete_employee_commit(p)
        \/ \E a \in AttendanceCreate : sql_mark_attendance(p, a)
        \/ sql_mark_attendance_find(p)
        \/ sql_mark_attendance_update(p)
        \/ sql_mark_attendance_insert(p)
        \/ sql_mark_attendance_fetch(p)
        \/ \E q \in AttendanceQuery : sql_get_attendance(p, q)
        \/ sql_get_attendance_stats(p)

Spec == Init /\ [][Next]_vars

(* ------------------------ sequential calls ---------------------------- *)

\* A query string that is no calendar date in the %Y-%m-%d form.
MalformedDates == {"2024-13-45"}

\* date_from / date_to as a client may send them: absent, the string of a
\* calendar date, or a malformed string.
DateStrings ==
    {None} \cup {Some(IsoDates[d]) : d \in DOMAIN IsoDates}
           \cup {Some(s) : s \in MalformedDates}

\* GET /api/attendance queries with every combination of the filters.
AttendanceQueryStrings ==
    [employee_id : QueryEmployeeIds, date_from : DateStrings,
     date_to : DateStrings]

\* No request other than p's is in progress.
Alone(p) == \A q \in Procs \ {p} : pc[q] = "idle"

\* The clients call one at a time: a request is served to its response
\* before the next one is taken up.
NextSeq ==
    \E p \in Procs :
        \/ Alone(p) /\ \E e \in EmployeeCreate : mongo_create_employee(p, e)
        \/ Alone(p) /\ mongo_create_employee_email(p)
        \/ Alone(p) /\ mongo_create_employee_insert(p)
        \/ Alone(p) /\ mongo_create_employee_fetch(p)
        \/ Alone(p) /\ mongo_get_employees(p)
        \/ Alone(p) /\ \E a \in AttendanceCreate : mongo_mark_attendance(p, a)
        \/ Alone(p) /\ mongo_mark_attendance_find(p)
        \/ Alone(p) /\ mongo_mark_attendance_update(p)
        \/ Alone(p) /\ mongo_mark_attendance_insert(p)
        \/ Alone(p) /\ mongo_mark_attendance_fetch(p)
        \/ Alone(p) /\ \E q \in AttendanceQueryStrings :
                           mongo_get_attendance(p, q)
        \/ Alone(p) /\ mongo_get_attendance_stats(p)
        \/ Alone(p) /\ \E e \in EmployeeCreate : sql_create_employee(p, e)
        \/ Alone(p) /\ sql_create_employee_email(p)
        \/ Alone(p) /\ sql_create_employee_insert(p)
        \/ Alone(p) /\ sql_create_employee_fetch(p)
        \/ Alone(p) /\ sql_get_employees(p)
        \/ Alone(p) /\ \E id \in EmployeeIds : sql_get_employee(p, id)
        \/ Alone(p) /\ \E id \in EmployeeIds : sql_delete_employee(p, id)
        \/ Alone(p) /\ sql_delete_employee_commit(p)
        \/ Alone(p) /\ \E a \in AttendanceCreate : sql_mark_attendance(p, a)
        \/ Alone(p) /\ sql_mark_attendance_find(p)
        \/ Alone(p) /\ sql_mark_attendance_update(p)
        \/ Alone(p) /\ sql_mark_attendance_insert(p)
        \/ Alone(p) /\ sql_mark_attendance_fetch(p)
        \/ Alone(p) /\ \E q \in AttendanceQueryStrings :
                           sql_get_attendance(p, q)
        \/ Alone(p) /\ sql_get_attendance_stats(p)

SpecSeq == Init /\ [][NextSeq]_vars

(* ------------------------------ properties ---------------------------- *)

\* Some stored employee has this employee_id / this email.
EmployeeIdInStore(employee_id) ==
    \E i \in DOMAIN employees : employees[i].employee_id = employee_id

EmailInStore(email) ==
    \E i \in DOMAIN employees : employees[i].email = email

\* The stored attendance records of one (employee_id, date) pair.
RecordsOf(employee_id, date) ==
    {i \in DOMAIN attendance :
        /\ attendance[i].employee_id = employee_id
        /\ row_date(attendance[i]) = date}

\* This step: idle worker p takes up request rq and is not done with it.
Started(p, rq) == pc[p] = "idle" /\ pc'[p] # "idle" /\ req'[p] = rq

\* This step: an idle worker takes up request rq and answers it at once.
Exchange(rq) == pc' = pc /\ reply'.req = rq

\* This step: worker p, standing at step s, answers its request.
Answers(p, s) == pc[p] = s /\ pc'[p] = "idle"

CreateReply == reply.req.op = "create_employee"

MarkReply == reply.req.op = "mark_attendance"

(* C1: in every reachable state, under every interleaving of concurrent    *)
(* create-employee calls, no two stored employees share an employee_id and *)
(* no two share an email.                                                  *)
C1_UniqueEmployees ==
    \A i, j \in DOMAIN employees :
        i # j => /\ employees[i].employee_id # employees[j].employee_id
                 /\ employees[i].email # employees[j].email

\* A create that passed both pre-checks and lost the race on the email:
\* another employee_id holds its email, and its insert was refused.
C1_Witness ==
    /\ CreateReply
    /\ reply.response.code = 500
    /\ ~EmployeeIdInStore(reply.req.args.employee_id)
    /\ EmailInStore(reply.req.args.email)

(* C2: in every reachable state there is at most one attendance record per *)
(* (employee_id, date) pair, also when two mark-attendance calls for the   *)
(* pair both look the record up before either writes.                      *)
C2_OneRecordPerPair ==
    \A i, j \in DOMAIN attendance :
        i # j => ~(/\ attendance[i].employee_id = attendance[j].employee_id
                   /\ row_date(attendance[i]) = row_date(attendance[j]))

(* C3: a create-employee call whose insert is refused by a unique index   *)
(* (it passed both pre-checks, then lost the race) ends with HTTP 400,    *)
(* never with an unhandled storage exception.                             *)
C3_RefusedInsertIsConflict ==
    [][\A p \in Procs :
          (/\ Answers(p, "c_insert")
           /\ \/ EmployeeIdInStore(req[p].args.employee_id)
              \/ EmailInStore(req[p].args.email))
          => reply'.response.code = 400]_vars

(* C4: a create-employee call whose employee_id is that of a stored       *)
(* employee fails with HTTP 400 whatever its other fields are, and leaves *)
(* the employee store unchanged.                                          *)
C4_DuplicateIdConflict ==
    [][\A e \in EmployeeCreate :
          EmployeeIdInStore(e.employee_id) =>
              /\ \A p \in Procs : ~Started(p, Request("create_employee", e))
              /\ Exchange(Request("create_employee", e)) =>
                     /\ reply'.response.code = 400
                     /\ employees' = employees]_vars

\* A create answered 400 although the stored employee of that employee_id
\* differs from the payload in every other field.
C4_Witness ==
    /\ CreateReply
    /\ reply.response.code = 400
    /\ \E i \in DOMAIN employees :
           /\ employees[i].employee_id = reply.req.args.employee_id
           /\ employees[i].full_name # reply.req.args.full_name
           /\ employees[i].email # reply.req.args.email
           /\ employees[i].department # reply.req.args.department

(* C5: a create-employee call whose email is that of a stored employee    *)
(* when the call looks the email up fails with HTTP 400, although its     *)
(* employee_id is new, and leaves the employee store unchanged.           *)
C5_DuplicateEmailConflict ==
    [][\A p \in Procs :
          (/\ pc[p] = "c_email"
           /\ pc'[p] # "c_email"
           /\ EmailInStore(req[p].args.email))
          => /\ pc'[p] = "idle"
             /\ reply'.req = req[p]
             /\ reply'.response.code = 400
             /\ employees' = employees]_vars

\* A create with a new employee_id answered 400 because of its email.
C5_Witness ==
    /\ CreateReply
    /\ reply.response.code = 400
    /\ ~EmployeeIdInStore(reply.req.args.employee_id)
    /\ EmailInStore(reply.req.args.email)

(* C6: a mark-attendance call (validated input) whose employee_id matches *)
(* no stored employee fails with HTTP 404; no call for an unknown         *)
(* employee_id, valid or not, inserts or modifies an attendance record.   *)
C6_UnknownEmployeeNotFound ==
    [][\A a \in AttendanceCreate :
          ~EmployeeIdInStore(a.employee_id) =>
              /\ \A p \in Procs : ~Started(p, Request("mark_attendance", a))
              /\ Exchange(Request("mark_attendance", a)) =>
                     /\ a.date <= Today => reply'.response.code = 404
                     /\ attendance' = attendance]_vars

\* A mark for an unknown employee answered 404 while the store holds
\* records of another employee.
C6_Witness ==
    /\ MarkReply
    /\ reply.response.code = 404
    /\ ~EmployeeIdInStore(reply.req.args.employee_id)
    /\ attendance # <<>>

\* What GET /api/attendance?employee_id=... selects in this backend.
ListedFor(employee_id) ==
    LET q == [employee_id |-> Some(employee_id), date_from |-> None,
              date_to |-> None]
    IN  IF backend = "mongodb" THEN mongo_attendance_query(q)
        ELSE sql_attendance_query(q)

(* C7: for an existing employee, the later of two sequential mark calls   *)
(* for one (employee_id, date) with different status values (it finds the *)
(* earlier call's record and rewrites it while no other request is in     *)
(* progress) leaves exactly one record for the pair, carrying its status, *)
(* and a following list-attendance for the employee returns exactly one   *)
(* record of that date.                                                   *)
C7_SecondMarkLeavesOneRecord ==
    [][\A p \in Procs :
          (/\ pc[p] = "m_update"
           /\ pc'[p] = "m_fetch"
           /\ loc[p].existing[1].status # req[p].args.status
           /\ \A q \in Procs \ {p} : pc[q] = "idle")
          => LET a == req[p].args
             IN  /\ Cardinality(RecordsOf(a.employee_id, a.date)') = 1
                 /\ \A i \in RecordsOf(a.employee_id, a.date)' :
                        attendance'[i].status = a.status
                 /\ Cardinality({r \in ListedFor(a.employee_id)' :
                                    row_date(r) = a.date}) = 1]_vars

\* The response of the stats operation of this backend in this state.
Stats ==
    IF backend = "mongodb"
    THEN mongo_attendance_stats(employees, attendance)
    ELSE sql_attendance_stats(employees, attendance)

StatsReply == reply.req.op = "get_attendance_stats"

\* Stored attendance records of an employee_id with a status.
CountOf(employee_id, status) ==
    Cardinality({i \in DOMAIN attendance :
                    /\ attendance[i].employee_id = employee_id
                    /\ attendance[i].status = status})

\* stats lists every stored employee once and nobody else, with the
\* counts of the stored records.
StatsExact(stats) ==
    /\ \A i \in DOMAIN employees :
           Cardinality({k \in DOMAIN stats :
               stats[k].employee_id = employees[i].employee_id}) = 1
    /\ \A k \in DOMAIN stats :
           /\ EmployeeIdInStore(stats[k].employee_id)
           /\ stats[k].total_present = CountOf(stats[k].employee_id, PRESENT)
           /\ stats[k].total_absent = CountOf(stats[k].employee_id, ABSENT)
           /\ (/\ CountOf(stats[k].employee_id, PRESENT) = 0
               /\ CountOf(stats[k].employee_id, ABSENT) = 0)
              => stats[k].total_days = 0

(* C8: in any reachable state the stats operation returns exactly one     *)
(* AttendanceStat per stored employee and none for anybody else, with     *)
(* total_present and total_absent the numbers of the employee's stored    *)
(* Present and Absent records; an employee without records has 0/0/0.     *)
C8_StatsExact ==
    /\ StatsExact(Stats)
    /\ StatsReply => reply.response.body = Stats

\* Stats answered while one employee has no record and another has a
\* Present and an Absent one.
C8_Witness ==
    /\ StatsReply
    /\ \E k \in DOMAIN reply.response.body :
           reply.response.body[k].total_days = 0
    /\ \E k \in DOMAIN reply.response.body :
           /\ reply.response.body[k].total_present = 1
           /\ reply.response.body[k].total_absent = 1

(* C9: every AttendanceStat the stats operation returns, in both backends *)
(* and every reachable state, has total_days = total_present +            *)
(* total_absent, both counts non-negative.                                *)
C9_TotalDays ==
    /\ \A k \in DOMAIN Stats :
           /\ Stats[k].total_days
                  = Stats[k].total_present + Stats[k].total_absent
           /\ Stats[k].total_present >= 0
           /\ Stats[k].total_absent >= 0
    /\ StatsReply =>
           \A k \in DOMAIN reply.response.body :
               reply.response.body[k].total_days
                   = reply.response.body[k].total_present
                     + reply.response.body[k].total_absent

\* The document store answered stats with its independent count of two
\* records, one Present and one Absent.
C9_Witness ==
    /\ backend = "mongodb"
    /\ StatsReply
    /\ \E k \in DOMAIN reply.response.body :
           /\ reply.response.body[k].total_days = 2
           /\ reply.response.body[k].total_present = 1

(* C10: on the same employee and attendance data the stats operation of   *)
(* the document-store backend and that of the relational backend return   *)
(* the same set of AttendanceStat values.                                 *)
C10_SameStats ==
    Range(mongo_attendance_stats(employees, attendance))
        = Range(sql_attendance_stats(employees, attendance))

\* The relational backend answered stats for two employees, one of them
\* with records, and the document-store computation gives the same.
C10_Witness ==
    /\ sql
    /\ StatsReply
    /\ Len(reply.response.body) = 2
    /\ \E k \in DOMAIN reply.response.body :
           reply.response.body[k].total_days = 2
    /\ Range(reply.response.body)
           = Range(mongo_attendance_stats(employees, attendance))

\* The filters of a query with well-formed date strings, as the dates they
\* denote.
WellFormedQueries ==
    {q \in AttendanceQueryStrings :
        /\ q.date_from # None => well_formed(q.date_from[1])
        /\ q.date_to # None => well_formed(q.date_to[1])}

\* The stored attendance records that satisfy every given filter of q.
Satisfying(q) ==
    {r \in Range(attendance) :
        /\ q.employee_id # None => r.employee_id = q.employee_id[1]
        /\ q.date_from # None => parse_date(q.date_from[1]) <= row_date(r)
        /\ q.date_to # None => row_date(r) <= parse_date(q.date_to[1])}

\* What GET /api/attendance selects for q in this backend.
Selected(q) ==
    IF backend = "mongodb" THEN mongo_attendance_query(q)
    ELSE sql_attendance_query(q)

\* A listed record without the fields the response adds or converts.
Listed(body) ==
    {[employee_id |-> body[i].employee_id, date |-> body[i].date,
      status |-> body[i].status] : i \in DOMAIN body}

Stored(rows) ==
    {[employee_id |-> r.employee_id, date |-> row_date(r),
      status |-> r.status] : r \in rows}

ListReply == reply.req.op = "get_attendance"

(* C11: list-attendance returns exactly the stored attendance records     *)
(* that satisfy all given filters (employee_id equal, date_from <= date   *)
(* <= date_to), no more and no fewer, and an empty list, not an error,    *)
(* when date_from is after date_to or nothing matches.                    *)
C11_ListExactlyMatching ==
    /\ \A q \in WellFormedQueries : Selected(q) = Satisfying(q)
    /\ (ListReply /\ reply.req.args \in WellFormedQueries) =>
           /\ reply.response.code = 200
           /\ Len(reply.response.body)
                  = Cardinality(Satisfying(reply.req.args))
           /\ Listed(reply.response.body)
                  = Stored(Satisfying(reply.req.args))

\* Every attendance record references a stored employee.
NoOrphans ==
    \A i \in DOMAIN attendance : EmployeeIdInStore(attendance[i].employee_id)

(* C12: a list-attendance call whose date_from or date_to is not a        *)
(* well-formed calendar-date string is answered HTTP 422                  *)
(* (ValidationError), not a server error, and returns no records.         *)
C12_MalformedDateIsValidationError ==
    (ListReply /\ reply.req.args \notin WellFormedQueries) =>
        /\ reply.response.code = 422
        /\ reply.response.body = <<>>

\* The steps of p's mark-attendance call after validation and the employee
\* lookup.
MarkSteps == {"m_find", "m_update", "m_insert", "m_fetch"}

Success == {200, 201}

(* C13: validation rejects every attendance submission dated after today  *)
(* (HTTP 422, nothing is written) and accepts every one dated today or    *)
(* earlier; a mark for an existing employee dated today or earlier goes   *)
(* on to the record lookup and, the calls being sequential, ends in       *)
(* success.                                                               *)
C13_DateBoundary ==
    [][/\ \A a \in AttendanceCreate :
             LET rq == Request("mark_attendance", a)
             IN  /\ a.date > Today =>
                        /\ \A p \in Procs : ~Started(p, rq)
                        /\ Exchange(rq) =>
                               /\ reply'.response.code = 422
                               /\ store' = store
                 /\ (a.date <= Today /\ Exchange(rq)) =>
                        /\ reply'.response.code = 404
                        /\ ~EmployeeIdInStore(a.employee_id)
       /\ \A p \in Procs :
             (pc[p] \in MarkSteps /\ pc'[p] = "idle") =>
                 /\ reply'.req = req[p]
                 /\ reply'.response.code \in Success
                 /\ \E i \in DOMAIN attendance' :
                        LET r == attendance'[i]
                        IN  /\ r.employee_id = req[p].args.employee_id
                            /\ row_date(r) = req[p].args.date
                            /\ r.status = req[p].args.status]_vars

\* A submission dated after today is rejected in a store that holds the
\* record of an accepted submission dated today.
C13_Witness ==
    /\ MarkReply
    /\ reply.req.args.date = Today + 1
    /\ reply.response.code = 422
    /\ \E i \in DOMAIN attendance : row_date(attendance[i]) = Today

\* The EmployeeCreate fields of a stored or returned employee.
Fields(emp) ==
    Payload(emp.employee_id, emp.full_name, emp.email, emp.department)

EmployeesReply == reply.req.op = "get_employees"

(* C14: with sequential calls, a create-employee call whose employee_id   *)
(* and email are both new to the store succeeds and its employee is       *)
(* stored and stays stored, so that two such calls with different         *)
(* employee_ids and emails both succeed; list-employees returns every     *)
(* stored employee, unfiltered, hence both.                               *)
C14_SequentialCreatesBothListed ==
    [][/\ \A e \in EmployeeCreate :
             (~EmployeeIdInStore(e.employee_id) /\ ~EmailInStore(e.email))
                 => ~Exchange(Request("create_employee", e))
       /\ \A p \in Procs :
             /\ (/\ pc[p] = "c_email"
                 /\ pc'[p] # "c_email"
                 /\ ~EmailInStore(req[p].args.email))
                    => pc'[p] = "c_insert"
             /\ (pc[p] = "c_insert" /\ pc'[p] # "c_insert") =>
                    /\ pc'[p] = "c_fetch"
                    /\ Len(employees') = Len(employees) + 1
                    /\ Fields(employees'[Len(employees')]) = req[p].args
             /\ (pc[p] = "c_fetch" /\ pc'[p] # "c_fetch") =>
                    /\ reply'.req = req[p]
                    /\ reply'.response.code \in Success
                    /\ Fields(reply'.response.body[1]) = req[p].args
                    /\ \E i \in DOMAIN employees' :
                           Fields(employees'[i]) = req[p].args
       /\ (\A p \in Procs : pc[p] # "d_commit") =>
             \A i \in DOMAIN employees :
                 /\ i \in DOMAIN employees'
                 /\ employees'[i] = employees[i]
       /\ reply'.req.op = "get_employees" =>
             /\ reply'.response.code = 200
             /\ Len(reply'.response.body) = Len(employees')
             /\ \A i \in DOMAIN employees' :
                    Fields(reply'.response.body[i]) = Fields(employees'[i])
      ]_vars

\* list-employees answered with two employees of different employee_id and
\* email.
C14_Witness ==
    /\ EmployeesReply
    /\ Len(reply.response.body) = 2
    /\ reply.response.body[1].employee_id # reply.response.body[2].employee_id
    /\ reply.response.body[1].email # reply.response.body[2].email

\* The employee p's mark-attendance call looked up is still stored: rows
\* are never stored again under a used id, so it was stored all along.
EmployeeStillStored(p) == find_employee_by_id(loc[p].employee[1].id) # None

(* C15: a mark-attendance call with valid input for an employee that      *)
(* exists throughout the call never ends in an unhandled storage error:   *)
(* also when it raced with another call for the same, not yet recorded,   *)
(* pair, it ends in success and leaves a single record for the pair,      *)
(* carrying the status of one of the calls.                               *)
C15_MarkNeverUnhandled ==
    [][\A p \in Procs :
          (/\ pc[p] \in MarkSteps
           /\ pc'[p] = "idle"
           /\ EmployeeStillStored(p))
          => LET a == req[p].args
             IN  /\ reply'.response.code \in Success
                 /\ Cardinality({i \in DOMAIN attendance' :
                        /\ attendance'[i].employee_id = a.employee_id
                        /\ row_date(attendance'[i]) = a.date}) = 1]_vars

(* C16: when mark-attendance has found an existing record for its pair,   *)
(* it changes only that record's status: the record's id, employee_id     *)
(* and date, every other attendance record and the whole employee store   *)
(* stay as they are, and the number of attendance records does not        *)
(* change.                                                                *)
C16_UpdateFrame ==
    [][\A p \in Procs :
          (/\ loc[p].existing # None
           /\ pc[p] \in {"m_update", "m_fetch"}
           /\ pc'[p] # pc[p])
          => LET existing == loc[p].existing[1]
             IN  /\ employees' = employees
                 /\ Len(attendance') = Len(attendance)
                 /\ \A i \in DOMAIN attendance :
                        IF attendance[i].id = existing.id
                           /\ pc[p] = "m_update"
                        THEN /\ attendance'[i] =
                                    [attendance[i] EXCEPT
                                        !.status = attendance'[i].status]
                             /\ attendance'[i].status \in
                                    {attendance[i].status,
                                     req[p].args.status}
                        ELSE attendance'[i] = attendance[i]]_vars

\* An update has rewritten the status of the record it found, in a store
\* with another record.
C16_Witness ==
    \E p \in Procs :
        /\ pc[p] = "m_fetch"
        /\ loc[p].existing # None
        /\ loc[p].existing[1].status # req[p].args.status
        /\ Len(attendance) = 2
        /\ \E i \in DOMAIN attendance :
               /\ attendance[i].id = loc[p].existing[1].id
               /\ attendance[i].status = req[p].args.status
        /\ \E i \in DOMAIN attendance :
               /\ attendance[i].id # loc[p].existing[1].id
               /\ attendance[i].status # req[p].args.status

\* The most mutating storage calls a request standing at step s can have
\* made: none before its write, one after it.
WritesDone(s) == IF s \in {"c_fetch", "m_fetch"} THEN 1 ELSE 0

\* The mutating storage calls of this step: one if it changes a store.
WritesNow == IF <<employees, attendance>>' # <<employees, attendance>>
             THEN 1 ELSE 0

\* ValidationError, ConflictError, NotFoundError.
ClassifiedErrors == {422, 400, 404}

(* C17: every request makes at most one mutating storage call, and a      *)
(* request that ends in ValidationError, ConflictError or NotFoundError   *)
(* (HTTP 422, 400, 404) has made none: its answering step and every step  *)
(* before it leave the employee and attendance stores as they are.        *)
C17_AtMostOneWrite ==
    [][/\ pc' = pc =>
             /\ WritesNow = 0
             /\ nextEmpId' = nextEmpId /\ nextAttId' = nextAttId
       /\ \A p \in Procs :
             pc'[p] # pc[p] =>
                 /\ WritesDone(pc[p]) + WritesNow
                        <= (IF pc'[p] = "idle" THEN 1 ELSE WritesDone(pc'[p]))
                 /\ pc[p] = "idle" => WritesNow = 0
                 /\ (/\ pc'[p] = "idle"
                     /\ reply'.response.code \in ClassifiedErrors)
                        => WritesDone(pc[p]) + WritesNow = 0
       /\ reply'.response.code \in ClassifiedErrors => WritesNow = 0]_vars

\* A mark-attendance call refused with 404 in a store that holds an
\* employee and attendance records.
C17_Witness ==
    /\ MarkReply
    /\ reply.response.code = 404
    /\ employees # <<>>
    /\ Len(attendance) = 2

\* The (employee_id, date) pairs that have a stored attendance record.
RecordedPairs ==
    {<<attendance[i].employee_id, row_date(attendance[i])>> :
        i \in DOMAIN attendance}

\* This step is the commit of a delete-employee call for employee_id in
\* the backend that has the operation.
DeleteCommits(employee_id) ==
    /\ sql
    /\ \E p \in Procs :
           /\ pc[p] = "d_commit"
           /\ pc'[p] = "idle"
           /\ req[p].op = "delete_employee"
           /\ req[p].args.employee_id = employee_id
           /\ reply'.response.code = 204

(* C18: once an attendance record exists for a pair (employee_id, date),  *)
(* a record for the pair exists in every later state, whatever create-    *)
(* employee, mark-attendance, list and stats operations run; only a       *)
(* delete-employee of that employee, in the backend that has the          *)
(* operation, removes it.                                                 *)
C18_RecordsPersist ==
    [][\A pair \in RecordedPairs :
          pair \notin RecordedPairs' => DeleteCommits(pair[1])]_vars

\* The record of a pair is still stored after a later mark-attendance
\* call for another date and a create-employee call have been served.
C18_Witness ==
    /\ CreateReply
    /\ reply.response.code \in Success
    /\ Len(employees) = 2
    /\ Cardinality(RecordedPairs) = 2

(* C19: in the backend that has delete-employee, a successful delete      *)
(* removes the employee and every attendance record with its employee_id, *)
(* and no stored attendance record references a deleted employee_id       *)
(* afterwards, also when a mark-attendance call for the employee passed   *)
(* its existence check before the delete committed and writes after it;   *)
(* a delete of an unknown employee_id is answered 404 and changes         *)
(* nothing.                                                               *)
C19_DeleteCascades ==
    [][sql =>
          /\ NoOrphans'
          /\ \A employee_id \in EmployeeIds :
                 /\ DeleteCommits(employee_id) =>
                        /\ ~EmployeeIdInStore(employee_id)'
                        /\ \A i \in DOMAIN attendance' :
                               attendance'[i].employee_id # employee_id
                 /\ ~EmployeeIdInStore(employee_id) =>
                        LET rq == Request("delete_employee",
                                      [employee_id |-> employee_id])
                        IN  /\ \A p \in Procs : ~Started(p, rq)
                            /\ Exchange(rq) =>
                                   /\ reply'.response.code = 404
                                   /\ store' = store]_vars

=============================================================================
